---- MODULE Spec2Model ----
(***************************************************************************)
(* A model of ServerlessFramework, the adapter of puresec-cli that runs    *)
(* `serverless package` into a scratch directory, caches the resolved      *)
(* state (serverless-state.json) and writes generated roles back into      *)
(* serverless.yml.                                                         *)
(*                                                                         *)
(* One adapter instance is modelled together with the files it touches.    *)
(* Every method is one action; a method that calls another method is the   *)
(* composition of the operators that model them, so a call to              *)
(* get_function_root includes the _package and _serverless_config calls    *)
(* it makes.  A SystemExit raised by a method ends that call; the instance *)
(* stays usable (as in the doctests), until __exit__.                      *)
(*                                                                         *)
(* Four specifications share the actions: Spec, an interactive instance    *)
(* and all its methods on a project that declares one function; SpecR,     *)
(* result() on several manifests, interactive or not; SpecF, the function  *)
(* resolver on every function table of up to MaxFunctions entries; SpecL,  *)
(* result() on a service with every resource block of up to MaxResources   *)
(* resources in its resolved state.                                        *)
(*                                                                         *)
(* Strings that the code takes apart (function names, which are            *)
(* capitalized) are sequences of characters; a fixed literal is one        *)
(* element, and concatenation is \o.                                       *)
(***************************************************************************)
EXTENDS Integers, Sequences, FiniteSets, TLC

\* ------------------------------------------------------------------ bounds
\* The guards stop an instance after this many Popen calls or scratch
\* directories (the code itself never goes beyond one).
MaxPackagings == 2
\* The toolchain's exit code ranges over -1 .. MaxExitCode (a negative code is
\* what Popen.wait() returns for a process killed by a signal).
MaxExitCode == 2
\* The longest function table of the resolved states of SpecF.
MaxFunctions == 2
\* The most resources in the resource block of the resolved states of SpecL.
MaxResources == 2

\* ----------------------------------------------------------------- strings
hello == <<"h", "e", "l", "l", "o">>
bye == <<"b", "y", "e">>
serviceName == <<"s", "v", "c">>
NoValue == <<>>

\* Declared (manifest-level) function names, and the names the provider gives.
DeclaredNames == {hello, bye}
ProviderNames == {<<"svc-dev-hello">>, <<"svc-dev-bye">>}
\* The stems a function's bundle may have in the scratch directory.
PkgNames == DeclaredNames \cup {serviceName}

upper(c) ==
    CASE c = "h" -> "H"
      [] c = "b" -> "B"
      [] c = "s" -> "S"
      [] c = "o" -> "O"
      [] OTHER -> c

\* puresec_cli.utils.capitalize: the first character in upper case.
capitalize(s) == IF s = <<>> THEN s ELSE <<upper(Head(s))>> \o Tail(s)

\* A variant that leaves the name as it is.
RoleId_plain(name) == <<"puresec">> \o name \o <<"Role">>

\* "puresec{}Role".format(capitalize(name))
RoleId(name) == <<"puresec">> \o capitalize(name) \o <<"Role">>
\* "${{self:custom.puresec_roles.PureSec{}Role}}".format(capitalize(name))
RoleRef(name) == <<"${self:custom.puresec_roles.PureSec">> \o capitalize(name) \o <<"Role}">>
\* "${file(puresec-roles.yml)}"
RolesFileRef == <<"${file(puresec-roles.yml)}">>

\* os.path.join(self.path, "serverless.yml")
serverless_config_path == <<"path/to/project/serverless.yml">>

\* -------------------------------------------------------------- exit codes
\* The codes given to SystemExit.
ExitUserDeclined == 1
ExitConfigNotFound == -1
ExitToolchainNotInstalled == -1
ExitStateArtifactMissing == -1
ExitStateArtifactInvalid == -1
ExitFunctionNotFound == -1
ExitBundleMissing == 2
ExitBundleCorrupt == 2
\* What process.wait() may return.
ExitCodes == (-1) .. MaxExitCode

\* ------------------------------------------------- serverless-state.json
\* A dict is a function on its set of keys; <<>> is the empty dict.
\* The parsed document, with the fields the adapter reads:
\*   service.service, service.provider.{name,region,profile},
\*   service.functions (in document order: <<[key, name], ...>>; an absent
\*   table reads as the empty one, .get('functions', {})),
\*   service.resources.Resources (absent reads as empty),
\*   package.individually ("absent", "false" or "true").
OldRole == <<"OldRole">>
Bucket == <<"Bucket">>

State(functions, individually, resources) ==
    [service |-> serviceName,
     provider |-> [name |-> <<"aws">>, region |-> <<"us-east-1">>, profile |-> NoValue],
     functions |-> functions,
     individually |-> individually,
     resources |-> resources]

LambdaRole == [Type |-> "AWS::IAM::Role", lambda |-> TRUE]
S3Bucket == [Type |-> "AWS::S3::Bucket", lambda |-> FALSE]

stateCombined ==
    State(<<[key |-> hello, name |-> <<"svc-dev-hello">>],
            [key |-> bye, name |-> <<"svc-dev-bye">>]>>,
          "absent",
          (OldRole :> LambdaRole) @@ (Bucket :> S3Bucket))
stateIndividually ==
    State(<<[key |-> hello, name |-> <<"svc-dev-hello">>]>>,
          "true",
          <<>>)
noState == State(<<>>, "absent", <<>>)

\* The documents the toolchain (or anyone else) writes in this model.
Docs == {stateCombined, stateIndividually}

\* Every function table of at most MaxFunctions entries (a dict: no key
\* twice; the same provider name may be given to several functions), and the
\* resolved states that have these tables.
other == <<"o", "t", "h", "e", "r">>
Entries == [key : DeclaredNames \cup {other}, name : ProviderNames]
Tables ==
    {f \in UNION {[1 .. n -> Entries] : n \in 0 .. MaxFunctions} :
        \A i, j \in DOMAIN f : i # j => f[i].key # f[j].key}
TableDocs == {State(f, i, <<>>) : f \in Tables, i \in {"absent", "false", "true"}}

\* The resource blocks of at most MaxResources resources: OldRole is a role
\* that lambda or another service assumes, Bucket a resource that is no role
\* and mentions lambda.amazonaws.com or not, and the new role of hello (left
\* by an earlier run) a role that lambda assumes.
EcsRole == [Type |-> "AWS::IAM::Role", lambda |-> FALSE]
LambdaPermission == [Type |-> "AWS::Lambda::Permission", lambda |-> TRUE]
ResourceIds == {OldRole, Bucket, RoleId(hello)}
ResourceKinds(id) ==
    IF id = OldRole THEN {LambdaRole, EcsRole}
    ELSE IF id = Bucket THEN {S3Bucket, LambdaPermission}
    ELSE {LambdaRole}
ResourceBlocks ==
    UNION {{f \in [ids -> {LambdaRole, EcsRole, S3Bucket, LambdaPermission}] :
               \A id \in ids : f[id] \in ResourceKinds(id)} :
           ids \in {x \in SUBSET ResourceIds : Cardinality(x) <= MaxResources}}
ResourceDocs ==
    {State(<<[key |-> hello, name |-> <<"svc-dev-hello">>],
             [key |-> bye, name |-> <<"svc-dev-bye">>]>>,
           "absent", resources) : resources \in ResourceBlocks}

\* The file serverless-state.json of the scratch directory.
\* kind is "absent", "invalid" (not JSON) or "json" (doc is what it parses to).
Artifact(kind, doc) == [kind |-> kind, doc |-> doc]
noArtifact == Artifact("absent", noState)
Artifacts ==
    {noArtifact, Artifact("invalid", noState)} \cup {Artifact("json", d) : d \in Docs}
\* The ValueError of json.load.
parserError == <<"Expecting value: line 1 column 1 (char 0)">>

\* A function's bundle in the scratch directory: a directory <stem>, a zip
\* archive <stem>.zip.
ZipKinds == {"absent", "corrupt", "valid"}
noBundles == [p \in PkgNames |-> [dir |-> FALSE, zip |-> "absent"]]
\* What a toolchain run leaves as archives: the same kind for every stem.
Zips == {[p \in PkgNames |-> k] : k \in ZipKinds}

\* One run of the external toolchain: whether Popen finds the executable,
\* the exit code, and what the run leaves in the scratch directory.
ToolRuns == [installed : BOOLEAN, code : ExitCodes, artifact : Artifacts, zips : Zips]

\* ----------------------------------------------------------- serverless.yml
\* The parsed manifest, with the keys result() touches:
\*   functions: whether the key is there, and each entry's `role`
\*     (NoValue: the entry has no role);
\*   resources: whether the key is there, whether it has a Resources key, the
\*     Resources dict (resource id -> definition), and whether the section
\*     holds anything else (Outputs, ...);
\*   custom: whether the key is there, and custom.puresec_roles (NoValue: unset);
\*   provider.iamRoleStatements: whether it is there.
Config(functions, resources, iam) ==
    [functions |-> functions,
     resources |-> resources,
     custom |-> [has |-> FALSE, puresec_roles |-> NoValue],
     iamRoleStatements |-> iam]

noFunctions == [has |-> FALSE, tab |-> <<>>]
Functions(tab) == [has |-> TRUE, tab |-> tab]
noResources == [has |-> FALSE, hasResources |-> FALSE, Resources |-> <<>>, others |-> FALSE]
Resources(tab) == [has |-> TRUE, hasResources |-> TRUE, Resources |-> tab, others |-> FALSE]
definition == <<"{Type: ..., Properties: ...}">>

\* {} : the manifest with no keys.
emptyConfig == Config(noFunctions, noResources, FALSE)
\* functions: {hello: {}}
helloConfig == Config(Functions(hello :> [role |-> NoValue]), noResources, FALSE)
\* a service with two functions, a role of its own and a default role
serviceConfig ==
    Config(Functions((hello :> [role |-> OldRole]) @@ (bye :> [role |-> NoValue])),
           Resources((OldRole :> definition) @@ (Bucket :> definition)),
           TRUE)

\* The manifests a project starts with in this model.
Configs == {emptyConfig, helloConfig, serviceConfig}

\* The manifests of a service with the functions hello and bye, with or
\* without provider.iamRoleStatements, with no resources section or with the
\* resources of ResourceIds.
ServiceConfigs ==
    {Config(Functions((hello :> [role |-> OldRole]) @@ (bye :> [role |-> NoValue])),
            resources, iam) :
        resources \in {noResources, Resources([id \in ResourceIds |-> definition])},
        iam \in BOOLEAN}

\* puresec-roles.yml: whether it exists, and the roles dumped into it.
noRolesFile == [exists |-> FALSE, roles |-> <<>>]

\* ------------------------------------------------------------------ state
VARIABLES
    yes,                \* self.yes
    manifestExists,     \* os.path.exists(<path>/serverless.yml)
    manifest,           \* the contents of serverless.yml
    rolesFile,          \* <path>/puresec-roles.yml
    has_serverless_package,      \* hasattr(self, '_serverless_package')
    serverless_package,          \* self._serverless_package.name (0: none)
    has_serverless_config_cache, \* hasattr(self, '_serverless_config_cache')
    serverless_config_cache,     \* self._serverless_config_cache
    scratchExists,      \* the directory self._serverless_package.name exists
    artifact,           \* <scratch>/serverless-state.json
    bundles,            \* <scratch>/<stem> and <scratch>/<stem>.zip
    popenCalls,         \* calls of Popen by this instance
    spawned,            \* subprocesses Popen has started
    packaged,           \* process.wait() has returned 0
    loadFailed,         \* an attempt to load serverless-state.json has failed
    created,            \* scratch directories made by this instance
    extractions,        \* for every stem, the times its archive was extracted
    exited,             \* __exit__ has run
    tick,               \* flips at every call, so that no call is a stuttering step
    last                \* the last step: the call, how it ended, what it printed,
                        \* read, asked and extracted

vars ==
    <<yes, manifestExists, manifest, rolesFile, has_serverless_package,
      serverless_package, has_serverless_config_cache, serverless_config_cache,
      scratchExists, artifact, bundles, popenCalls, spawned, packaged, loadFailed,
      created, extractions, exited, tick, last>>

\* The instance and its files as one value, which the methods take and give
\* back; eprinted holds the diagnostics of the call under way, reads the times
\* the call opened serverless-state.json, waited the exit codes process.wait()
\* gave it, prompts the questions it asked with the answers it got.
World ==
    [manifestExists |-> manifestExists,
     manifest |-> manifest,
     rolesFile |-> rolesFile,
     has_serverless_package |-> has_serverless_package,
     serverless_package |-> serverless_package,
     has_serverless_config_cache |-> has_serverless_config_cache,
     serverless_config_cache |-> serverless_config_cache,
     scratchExists |-> scratchExists,
     artifact |-> artifact,
     bundles |-> bundles,
     popenCalls |-> popenCalls,
     spawned |-> spawned,
     packaged |-> packaged,
     loadFailed |-> loadFailed,
     created |-> created,
     extractions |-> extractions,
     eprinted |-> <<>>,
     reads |-> 0,
     waited |-> <<>>,
     prompts |-> <<>>]

\* How a call ends: by returning ret, or by raising `error` (a SystemExit
\* with `code`, or an uncaught exception).
Return(w, ret) == [w |-> w, error |-> "none", code |-> 0, ret |-> ret]
Raise(w, error, code) == [w |-> w, error |-> error, code |-> code, ret |-> NoValue]
\* puresec_cli.utils.eprint: one diagnostic on stderr.
eprint(w, msg, arg) == [w EXCEPT !.eprinted = Append(@, [msg |-> msg, arg |-> arg])]

\* ----------------------------------------------------------------- _package
\* A variant that packages at every call.
always_package(w) == TRUE

\* if not hasattr(self, '_serverless_package'):
not_packaged(w) == ~w.has_serverless_package

\* self._serverless_package = TemporaryDirectory(prefix="puresec-"):
\* a fresh, empty directory, recorded on the instance.
TemporaryDirectory(w) ==
    [w EXCEPT !.has_serverless_package = TRUE,
              !.serverless_package = w.created + 1,
              !.created = w.created + 1,
              !.scratchExists = TRUE,
              !.artifact = noArtifact,
              !.bundles = noBundles]

\* Popen([...]) found the executable: the process runs and leaves its output
\* in the scratch directory.
spawn(w, t) ==
    [w EXCEPT !.spawned = w.spawned + 1,
              !.waited = Append(w.waited, t.code),
              !.artifact = t.artifact,
              !.bundles = [p \in PkgNames |-> [dir |-> FALSE, zip |-> t.zips[p]]]]

\* A variant that exits with -1 whatever the toolchain's exit code.
run_package_minus_one(w, t) ==
    LET w1 == TemporaryDirectory(w)
        w2 == [w1 EXCEPT !.popenCalls = w1.popenCalls + 1]
    IN  IF ~t.installed
        THEN Raise(eprint(w2, "error: serverless framework not installed, try using --framework-path", NoValue),
                   "ToolchainNotInstalled", ExitToolchainNotInstalled)
        ELSE LET w3 == spawn(w2, t)
             IN  IF t.code # 0
                 THEN Raise(eprint(w3, "error: serverless package failed:\n{}", <<"output">>),
                            "PackagingFailed", ExitToolchainNotInstalled)
                 ELSE Return([w3 EXCEPT !.packaged = TRUE], NoValue)

\* The part of _package after the manifest check: the scratch directory, then
\* the toolchain run t.
run_package(w, t) ==
    LET w1 == TemporaryDirectory(w)
        w2 == [w1 EXCEPT !.popenCalls = w1.popenCalls + 1]
    IN  IF ~t.installed
        THEN Raise(eprint(w2, "error: serverless framework not installed, try using --framework-path", NoValue),
                   "ToolchainNotInstalled", ExitToolchainNotInstalled)
        ELSE LET w3 == spawn(w2, t)
             IN  IF t.code # 0
                 THEN Raise(eprint(w3, "error: serverless package failed:\n{}", <<"output">>),
                            "PackagingFailed", t.code)
                 ELSE Return([w3 EXCEPT !.packaged = TRUE], NoValue)

\* A variant that makes the scratch directory before it looks for the manifest.
package_then_check(w, t) ==
    IF not_packaged(w)
    THEN IF ~w.manifestExists
         THEN Raise(eprint(TemporaryDirectory(w), "error: could not find serverless config in: {}", serverless_config_path),
                    "ConfigNotFound", ExitConfigNotFound)
         ELSE run_package(w, t)
    ELSE Return(w, NoValue)

_package(w, t) ==
    IF not_packaged(w)
    THEN IF ~w.manifestExists
         THEN Raise(eprint(w, "error: could not find serverless config in: {}", serverless_config_path),
                    "ConfigNotFound", ExitConfigNotFound)
         ELSE run_package(w, t)
    ELSE Return(w, NoValue)

\* ------------------------------------------------------- _serverless_config
\* A variant that never uses the cache.
never_cached(w) == FALSE

\* if hasattr(self, '_serverless_config_cache'):
cached(w) == w.has_serverless_config_cache

\* A variant that caches whatever it could read, an empty document if nothing.
load_state_keep(w) ==
    LET w1 == [w EXCEPT !.reads = w.reads + 1, !.has_serverless_config_cache = TRUE]
    IN  IF ~(w1.scratchExists /\ w1.artifact.kind # "absent")
        THEN Raise(eprint([w1 EXCEPT !.loadFailed = TRUE],
                          "error: serverless package did not create serverless-state.json", NoValue),
                   "StateArtifactMissing", ExitStateArtifactMissing)
        ELSE IF w1.artifact.kind = "invalid"
        THEN Raise(eprint([w1 EXCEPT !.loadFailed = TRUE],
                          "error: invalid serverless-state.json:\n{}", parserError),
                   "StateArtifactInvalid", ExitStateArtifactInvalid)
        ELSE Return([w1 EXCEPT !.serverless_config_cache = w1.artifact.doc],
                    w1.artifact.doc)

\* open(<scratch>/serverless-state.json) and json.load
load_state(w) ==
    LET w1 == [w EXCEPT !.reads = w.reads + 1]
    IN  IF ~(w1.scratchExists /\ w1.artifact.kind # "absent")
        THEN Raise(eprint([w1 EXCEPT !.loadFailed = TRUE],
                          "error: serverless package did not create serverless-state.json", NoValue),
                   "StateArtifactMissing", ExitStateArtifactMissing)
        ELSE IF w1.artifact.kind = "invalid"
        THEN Raise(eprint([w1 EXCEPT !.loadFailed = TRUE],
                          "error: invalid serverless-state.json:\n{}", parserError),
                   "StateArtifactInvalid", ExitStateArtifactInvalid)
        ELSE Return([w1 EXCEPT !.has_serverless_config_cache = TRUE,
                               !.serverless_config_cache = w1.artifact.doc],
                    w1.artifact.doc)

_serverless_config(w, t) ==
    IF cached(w)
    THEN Return(w, w.serverless_config_cache)
    ELSE LET p == _package(w, t)
         IN  IF p.error # "none" THEN p ELSE load_state(p.w)

\* ---------------------------------------------------------------- accessors
\* self._serverless_config['service']['provider'][field]
provider_field(w, t, field) ==
    LET c == _serverless_config(w, t)
    IN  IF c.error # "none" THEN c ELSE Return(c.w, c.ret.provider[field])

get_provider_name(w, t) == provider_field(w, t, "name")
get_default_profile(w, t) == provider_field(w, t, "profile")
get_default_region(w, t) == provider_field(w, t, "region")

\* os.path.join(self._serverless_package.name, <file>)
join(dir, file) == [dir |-> dir, file |-> file]

get_resource_template(w, t) ==
    LET p == _package(w, t)
    IN  IF p.error # "none"
        THEN p
        ELSE Return(p.w, join(p.w.serverless_package, <<"cloudformation-template-update-stack.json">>))

\* -------------------------------------------------------- get_function_name
\* A variant that looks for the name among the declared names.
RECURSIVE scan_keys(_, _, _)
scan_keys(functions, provider_function_name, i) ==
    IF i > Len(functions) THEN 0
    ELSE IF functions[i].key = provider_function_name THEN i
    ELSE scan_keys(functions, provider_function_name, i + 1)

\* The first entry of the table whose name is provider_function_name
\* (0: there is none).
RECURSIVE scan(_, _, _)
scan(functions, provider_function_name, i) ==
    IF i > Len(functions) THEN 0
    ELSE IF functions[i].name = provider_function_name THEN i
    ELSE scan(functions, provider_function_name, i + 1)

get_function_name(w, t, provider_function_name) ==
    LET c == _serverless_config(w, t)
    IN  IF c.error # "none"
        THEN c
        ELSE LET i == scan(c.ret.functions, provider_function_name, 1)
             IN  IF i # 0
                 THEN Return(c.w, c.ret.functions[i].key)
                 ELSE Raise(eprint(c.w, "error: could not find Serverless name for function: '{}'", provider_function_name),
                            "FunctionNotFound", ExitFunctionNotFound)

\* ------------------------------------------------ _get_function_package_name
\* A variant whose default is True.
individually_by_default(doc) == doc.individually # "false"

\* self._serverless_config.get('package', {}).get('individually', False)
individually(doc) == doc.individually = "true"

_get_function_package_name(w, t, name) ==
    LET c == _serverless_config(w, t)
    IN  IF c.error # "none"
        THEN c
        ELSE IF ~individually(c.ret)
        THEN Return(c.w, c.ret.service)
        ELSE Return(c.w, name)

\* --------------------------------------------------------- get_function_root
\* A variant that extracts the archive at every call.
get_function_root_again(w, t, name) ==
    LET p == _package(w, t)
    IN  IF p.error # "none"
        THEN p
        ELSE LET n == _get_function_package_name(p.w, t, name)
             IN  IF n.error # "none"
                 THEN n
                 ELSE LET package_name == n.ret
                          w1 == n.w
                          function_root == join(w1.serverless_package, package_name)
                      IN  IF ~w1.scratchExists \/ w1.bundles[package_name].zip = "absent"
                          THEN Raise(eprint(w1, "error: serverless package did not create a function zip for '{}'", name),
                                     "BundleMissing", ExitBundleMissing)
                          ELSE IF w1.bundles[package_name].zip = "corrupt"
                          THEN Raise(eprint(w1, "error: serverless package did not create a valid function zip for '{}'", name),
                                     "BundleCorrupt", ExitBundleCorrupt)
                          ELSE Return([w1 EXCEPT !.bundles[package_name].dir = TRUE,
                                                 !.extractions[package_name] = @ + 1],
                                      function_root)

\* zipfile.extractall(function_root)
extractall(w, package_name) ==
    [w EXCEPT !.bundles[package_name].dir = TRUE,
              !.extractions[package_name] = @ + 1]

get_function_root(w, t, name) ==
    LET p == _package(w, t)
    IN  IF p.error # "none"
        THEN p
        ELSE LET n == _get_function_package_name(p.w, t, name)
             IN  IF n.error # "none"
                 THEN n
                 ELSE LET package_name == n.ret
                          w1 == n.w
                          function_root == join(w1.serverless_package, package_name)
                      IN  IF w1.scratchExists /\ w1.bundles[package_name].dir
                          THEN Return(w1, function_root)
                          ELSE IF ~w1.scratchExists \/ w1.bundles[package_name].zip = "absent"
                          THEN Raise(eprint(w1, "error: serverless package did not create a function zip for '{}'", name),
                                     "BundleMissing", ExitBundleMissing)
                          ELSE IF w1.bundles[package_name].zip = "corrupt"
                          THEN Raise(eprint(w1, "error: serverless package did not create a valid function zip for '{}'", name),
                                     "BundleCorrupt", ExitBundleCorrupt)
                          ELSE Return(extractall(w1, package_name), function_root)

\* -------------------------------------------------------------------- result
\* provider.permissions (function name -> policy) and provider.roles, the
\* role definitions dumped to puresec-roles.yml.
Provider(names) ==
    [permissions |-> [n \in names |-> <<"policy">>],
     roles |-> [n \in names |-> <<"role">>]]
Providers == {Provider(names) : names \in SUBSET {hello}}
\* The mappings for the service of ServiceConfigs: any of its functions, and
\* one with a function the manifest does not declare.
ServiceProviders ==
    {Provider(names) : names \in {{}, {hello}, {hello, bye}, {hello, other}}}

\* The answers the user gives to the questions of one result() call, should
\* they be asked.
Answers == [overwrite : BOOLEAN, reference : BOOLEAN, remove : BOOLEAN, sure : BOOLEAN]

\* The answers that can make a difference: with self.yes nothing is asked,
\* the overwrite question needs a roles file, "Are you sure?" a yes to
\* "Remove old roles?".
AnswersFor(w, flag) ==
    {a \in Answers :
        /\ flag => (a.overwrite /\ a.reference /\ a.remove /\ a.sure)
        /\ ~w.rolesFile.exists => a.overwrite
        /\ ~a.overwrite => (a.reference /\ a.remove /\ a.sure)
        /\ ~a.remove => a.sure}

\* puresec_cli.utils.input_query: the question is put to the user.
input_query(w, question, answer) ==
    [w EXCEPT !.prompts = Append(@, [question |-> question, answer |-> answer])]

\* new_roles: the role of every function of permissions
new_roles(permissions) == {RoleId(name) : name \in DOMAIN permissions}

\* config.setdefault('resources', {}).setdefault('Resources', {}),
\* config.setdefault('custom', {})['puresec_roles'] = ..., and one resource
\* for every function of permissions.
add_roles(config, permissions) ==
    LET old == config.resources.Resources
        ids == new_roles(permissions)
        new_resources ==
            [id \in (DOMAIN old) \cup ids |->
                IF id \in ids
                THEN RoleRef(CHOOSE name \in DOMAIN permissions : RoleId(name) = id)
                ELSE old[id]]
    IN  [config EXCEPT !.resources.has = TRUE,
                       !.resources.hasResources = TRUE,
                       !.resources.Resources = new_resources,
                       !.custom = [has |-> TRUE, puresec_roles |-> RolesFileRef]]

\* config['functions'][name] is there for every function of permissions
has_functions(config, permissions) ==
    config.functions.has /\ (DOMAIN permissions) \subseteq DOMAIN config.functions.tab

\* config['functions'][name]['role'] = "puresec{}Role".format(capitalize(name))
reference(config, permissions) ==
    [config EXCEPT !.functions.tab =
        [name \in DOMAIN config.functions.tab |->
            IF name \in DOMAIN permissions
            THEN [config.functions.tab[name] EXCEPT !.role = RoleId(name)]
            ELSE config.functions.tab[name]]]

\* A variant that takes the new roles too.
old_role_resources_and_new(config, old_resources, permissions) ==
    {resource_id \in DOMAIN old_resources :
        /\ old_resources[resource_id].Type = "AWS::IAM::Role"
        /\ old_resources[resource_id].lambda
        /\ resource_id \in DOMAIN config.resources.Resources}

\* A variant that takes every role, whoever assumes it.
old_role_resources_any_role(config, old_resources, permissions) ==
    {resource_id \in DOMAIN old_resources :
        /\ old_resources[resource_id].Type = "AWS::IAM::Role"
        /\ resource_id \notin new_roles(permissions)
        /\ resource_id \in DOMAIN config.resources.Resources}

\* The resources of old_resources that would be removed: roles assumed for
\* lambda that are not new and are in new_resources.
old_role_resources(config, old_resources, permissions) ==
    {resource_id \in DOMAIN old_resources :
        /\ old_resources[resource_id].Type = "AWS::IAM::Role"
        /\ old_resources[resource_id].lambda
        /\ resource_id \notin new_roles(permissions)
        /\ resource_id \in DOMAIN config.resources.Resources}

\* old_roles is not empty
has_old_roles(config, old_resources, permissions) ==
    config.iamRoleStatements \/ old_role_resources(config, old_resources, permissions) # {}

\* A variant that removes the resources and keeps provider.iamRoleStatements.
remove_old_resources(config, old_resources, permissions) ==
    LET gone == old_role_resources(config, old_resources, permissions)
    IN  [config EXCEPT !.resources.Resources =
                           [id \in (DOMAIN config.resources.Resources) \ gone |->
                               config.resources.Resources[id]]]

\* del config['provider']['iamRoleStatements'] and del new_resources[resource_id]
remove_old(config, old_resources, permissions) ==
    LET gone == old_role_resources(config, old_resources, permissions)
    IN  [config EXCEPT !.iamRoleStatements = FALSE,
                       !.resources.Resources =
                           [id \in (DOMAIN config.resources.Resources) \ gone |->
                               config.resources.Resources[id]]]

\* if not new_resources and 'resources' in config: del config['resources']
cleanup(config) ==
    IF config.resources.Resources = <<>> /\ config.resources.has
    THEN [config EXCEPT !.resources = noResources]
    ELSE config

\* with open(config_path, 'w') as f: yaml.dump(config, f)
dump_config(w, config) ==
    Return([w EXCEPT !.manifest = cleanup(config), !.manifestExists = TRUE], NoValue)

\* A variant that asks "Remove old roles?" whatever self.yes is.
remove_and_dump_ask(w, t, flag, provider, answers, config) ==
    LET permissions == provider.permissions
        w1 == input_query(w, "Remove old roles?", answers.remove)
    IN  IF answers.remove
        THEN LET c == _serverless_config(w1, t)
             IN  IF c.error # "none"
                 THEN c
                 ELSE IF ~has_old_roles(config, c.ret.resources, permissions)
                 THEN dump_config(c.w, config)
                 ELSE LET w2 == IF flag THEN c.w
                                ELSE input_query(c.w, "These are the roles that would be removed:\n{}\nAre you sure?", answers.sure)
                      IN  IF flag \/ answers.sure
                          THEN dump_config(w2, remove_old(config, c.ret.resources, permissions))
                          ELSE dump_config(w2, config)
        ELSE dump_config(w1, config)

\* The "remove old" step and what follows it.
remove_and_dump(w, t, flag, provider, answers, config) ==
    LET permissions == provider.permissions
        w1 == IF flag THEN w ELSE input_query(w, "Remove old roles?", answers.remove)
    IN  IF flag \/ answers.remove
        THEN LET c == _serverless_config(w1, t)
             IN  IF c.error # "none"
                 THEN c
                 ELSE IF ~has_old_roles(config, c.ret.resources, permissions)
                 THEN dump_config(c.w, config)
                 ELSE LET w2 == IF flag THEN c.w
                                ELSE input_query(c.w, "These are the roles that would be removed:\n{}\nAre you sure?", answers.sure)
                      IN  IF flag \/ answers.sure
                          THEN dump_config(w2, remove_old(config, c.ret.resources, permissions))
                          ELSE dump_config(w2, config)
        ELSE dump_config(w1, config)

\* A variant that writes the manifest before it fails on a function the
\* manifest does not declare.
reference_after_dump(w, t, flag, provider, answers, config) ==
    LET permissions == provider.permissions
        w1 == IF flag THEN w ELSE input_query(w, "Reference functions to new roles?", answers.reference)
    IN  IF flag \/ answers.reference
        THEN IF ~has_functions(config, permissions)
             THEN Raise([w1 EXCEPT !.manifest = config], "KeyError", 0)
             ELSE remove_and_dump(w1, t, flag, provider, answers, reference(config, permissions))
        ELSE remove_and_dump(w1, t, flag, provider, answers, config)

\* A variant that takes a no to the rewiring as the end of the run.
reference_or_abort(w, t, flag, provider, answers, config) ==
    LET permissions == provider.permissions
        w1 == IF flag THEN w ELSE input_query(w, "Reference functions to new roles?", answers.reference)
    IN  IF flag \/ answers.reference
        THEN IF ~has_functions(config, permissions)
             THEN Raise(w1, "KeyError", 0)
             ELSE remove_and_dump(w1, t, flag, provider, answers, reference(config, permissions))
        ELSE Raise(w1, "UserDeclined", ExitUserDeclined)

\* The "referencing" step and what follows it.
reference_and_rest(w, t, flag, provider, answers, config) ==
    LET permissions == provider.permissions
        w1 == IF flag THEN w ELSE input_query(w, "Reference functions to new roles?", answers.reference)
    IN  IF flag \/ answers.reference
        THEN IF ~has_functions(config, permissions)
             THEN Raise(w1, "KeyError", 0)
             ELSE remove_and_dump(w1, t, flag, provider, answers, reference(config, permissions))
        ELSE remove_and_dump(w1, t, flag, provider, answers, config)

\* From "dumping roles" on: the roles file is written, the manifest read.
dump_and_rest(w, t, flag, provider, answers) ==
    LET w1 == [w EXCEPT !.rolesFile = [exists |-> TRUE, roles |-> provider.roles]]
    IN  IF ~w1.manifestExists
        THEN Raise(w1, "FileNotFoundError", 0)
        ELSE reference_and_rest(w1, t, flag, provider, answers,
                                add_roles(w1.manifest, provider.permissions))

\* A variant that writes the roles file before it asks.
result_write_first(w, t, flag, provider, answers) ==
    IF DOMAIN provider.permissions = {}
    THEN Return(w, NoValue)
    ELSE IF ~flag /\ w.rolesFile.exists
    THEN LET w1 == input_query(w, "Roles file already exists, overwrite?", answers.overwrite)
         IN  IF ~answers.overwrite
             THEN Raise([w1 EXCEPT !.rolesFile = [exists |-> TRUE, roles |-> provider.roles]],
                        "UserDeclined", ExitUserDeclined)
             ELSE dump_and_rest(w1, t, flag, provider, answers)
    ELSE dump_and_rest(w, t, flag, provider, answers)

\* result(self, provider), on an instance with self.yes = flag
result(w, t, flag, provider, answers) ==
    IF DOMAIN provider.permissions = {}
    THEN Return(w, NoValue)
    ELSE IF ~flag /\ w.rolesFile.exists
    THEN LET w1 == input_query(w, "Roles file already exists, overwrite?", answers.overwrite)
         IN  IF ~answers.overwrite
             THEN Raise(w1, "UserDeclined", ExitUserDeclined)
             ELSE dump_and_rest(w1, t, flag, provider, answers)
    ELSE dump_and_rest(w, t, flag, provider, answers)

\* ------------------------------------------------------------------ __exit__
\* A variant that cleans up only after a packaging that succeeded.
exit_after_success(w) ==
    IF w.has_serverless_package /\ w.packaged
    THEN Return([w EXCEPT !.scratchExists = FALSE,
                          !.artifact = noArtifact,
                          !.bundles = noBundles], NoValue)
    ELSE Return(w, NoValue)

\* if hasattr(self, '_serverless_package'): self._serverless_package.cleanup()
__exit__(w) ==
    IF w.has_serverless_package
    THEN Return([w EXCEPT !.scratchExists = FALSE,
                          !.artifact = noArtifact,
                          !.bundles = noBundles], NoValue)
    ELSE Return(w, NoValue)

\* ------------------------------------------------------------------- actions
\* The toolchain runs a call may meet: a call that cannot reach Popen meets
\* none, and a run that cannot start has no exit code and no output.
notInstalled == [installed |-> FALSE, code |-> 0, artifact |-> noArtifact, zips |-> [p \in PkgNames |-> "absent"]]
ToolRunsFor(w) ==
    IF not_packaged(w) /\ w.manifestExists
    THEN {notInstalled} \cup {t \in ToolRuns : t.installed}
    ELSE {notInstalled}

\* The step of a call that ended as r says.
Call(op, arg, r) ==
    /\ ~exited
    /\ popenCalls < MaxPackagings
    /\ created < MaxPackagings
    /\ manifestExists' = r.w.manifestExists
    /\ manifest' = r.w.manifest
    /\ rolesFile' = r.w.rolesFile
    /\ has_serverless_package' = r.w.has_serverless_package
    /\ serverless_package' = r.w.serverless_package
    /\ has_serverless_config_cache' = r.w.has_serverless_config_cache
    /\ serverless_config_cache' = r.w.serverless_config_cache
    /\ scratchExists' = r.w.scratchExists
    /\ artifact' = r.w.artifact
    /\ bundles' = r.w.bundles
    /\ popenCalls' = r.w.popenCalls
    /\ spawned' = r.w.spawned
    /\ packaged' = r.w.packaged
    /\ loadFailed' = r.w.loadFailed
    /\ created' = r.w.created
    /\ extractions' = r.w.extractions
    /\ tick' = ~tick
    /\ last' = [op |-> op, arg |-> arg, error |-> r.error, code |-> r.code,
                ret |-> r.ret, eprinted |-> r.w.eprinted, reads |-> r.w.reads,
                waited |-> r.w.waited, prompts |-> r.w.prompts,
                extracted |-> {p \in PkgNames : r.w.extractions[p] # extractions[p]}]

Do_package ==
    /\ \E t \in ToolRunsFor(World) :
          \E r \in {_package(World, t)} : Call("_package", NoValue, r)
    /\ UNCHANGED <<yes, exited>>

Do_serverless_config ==
    /\ \E t \in ToolRunsFor(World) :
          \E r \in {_serverless_config(World, t)} : Call("_serverless_config", NoValue, r)
    /\ UNCHANGED <<yes, exited>>

Do_get_provider_name ==
    /\ \E t \in ToolRunsFor(World) :
          \E r \in {get_provider_name(World, t)} : Call("get_provider_name", NoValue, r)
    /\ UNCHANGED <<yes, exited>>

Do_get_default_profile ==
    /\ \E t \in ToolRunsFor(World) :
          \E r \in {get_default_profile(World, t)} : Call("get_default_profile", NoValue, r)
    /\ UNCHANGED <<yes, exited>>

Do_get_default_region ==
    /\ \E t \in ToolRunsFor(World) :
          \E r \in {get_default_region(World, t)} : Call("get_default_region", NoValue, r)
    /\ UNCHANGED <<yes, exited>>

Do_get_resource_template ==
    /\ \E t \in ToolRunsFor(World) :
          \E r \in {get_resource_template(World, t)} : Call("get_resource_template", NoValue, r)
    /\ UNCHANGED <<yes, exited>>

Do_get_function_name ==
    /\ \E t \in ToolRunsFor(World), n \in ProviderNames :
          \E r \in {get_function_name(World, t, n)} : Call("get_function_name", n, r)
    /\ UNCHANGED <<yes, exited>>

Do_get_function_package_name ==
    /\ \E t \in ToolRunsFor(World), n \in DeclaredNames :
          \E r \in {_get_function_package_name(World, t, n)} : Call("_get_function_package_name", n, r)
    /\ UNCHANGED <<yes, exited>>

Do_get_function_root ==
    /\ \E t \in ToolRunsFor(World), n \in DeclaredNames :
          \E r \in {get_function_root(World, t, n)} : Call("get_function_root", n, r)
    /\ UNCHANGED <<yes, exited>>

Do_result ==
    /\ \E t \in ToolRunsFor(World), provider \in Providers, answers \in AnswersFor(World, yes) :
          \E r \in {result(World, t, yes, provider, answers)} : Call("result", provider, r)
    /\ UNCHANGED <<yes, exited>>

\* result() with the mappings of ServiceProviders.
Do_result_service ==
    /\ \E t \in ToolRunsFor(World), provider \in ServiceProviders, answers \in AnswersFor(World, yes) :
          \E r \in {result(World, t, yes, provider, answers)} : Call("result", provider, r)
    /\ UNCHANGED <<yes, exited>>

Do_exit ==
    /\ \E r \in {__exit__(World)} : Call("__exit__", NoValue, r)
    /\ exited' = TRUE
    /\ UNCHANGED yes

\* Somebody else creates or deletes serverless.yml.
EnvManifest ==
    /\ ~exited
    /\ manifestExists' = ~manifestExists
    /\ last' = [op |-> "env", arg |-> NoValue, error |-> "none", code |-> 0,
                ret |-> NoValue, eprinted |-> <<>>, reads |-> 0, waited |-> <<>>,
                prompts |-> <<>>, extracted |-> {}]
    /\ UNCHANGED <<yes, manifest, rolesFile, has_serverless_package,
                   serverless_package, has_serverless_config_cache,
                   serverless_config_cache, scratchExists, artifact, bundles,
                   popenCalls, spawned, packaged, loadFailed, created, extractions,
                   exited, tick>>

\* Somebody else rewrites or deletes serverless-state.json in the scratch
\* directory.
EnvArtifact ==
    /\ ~exited
    /\ scratchExists
    /\ \E a \in Artifacts \ {artifact} : artifact' = a
    /\ last' = [op |-> "env", arg |-> NoValue, error |-> "none", code |-> 0,
                ret |-> NoValue, eprinted |-> <<>>, reads |-> 0, waited |-> <<>>,
                prompts |-> <<>>, extracted |-> {}]
    /\ UNCHANGED <<yes, manifestExists, manifest, rolesFile, has_serverless_package,
                   serverless_package, has_serverless_config_cache,
                   serverless_config_cache, scratchExists, bundles,
                   popenCalls, spawned, packaged, loadFailed, created, extractions,
                   exited, tick>>

\* ServerlessFramework(path, config, executable, yes): nothing is packaged,
\* nothing cached.
New ==
    /\ has_serverless_package = FALSE
    /\ serverless_package = 0
    /\ has_serverless_config_cache = FALSE
    /\ serverless_config_cache = noState
    /\ scratchExists = FALSE
    /\ artifact = noArtifact
    /\ bundles = noBundles
    /\ popenCalls = 0
    /\ spawned = 0
    /\ packaged = FALSE
    /\ loadFailed = FALSE
    /\ created = 0
    /\ extractions = [p \in PkgNames |-> 0]
    /\ exited = FALSE
    /\ tick = FALSE
    /\ last = [op |-> "__init__", arg |-> NoValue, error |-> "none", code |-> 0,
               ret |-> NoValue, eprinted |-> <<>>, reads |-> 0, waited |-> <<>>,
                prompts |-> <<>>, extracted |-> {}]

\* A roles file left by an earlier run.
oldRolesFile == [exists |-> TRUE, roles |-> Provider({bye}).roles]

\* An interactive instance on a project that declares the function hello and
\* has a roles file, with or without its serverless.yml.
Init ==
    /\ New
    /\ yes = FALSE
    /\ manifestExists \in BOOLEAN
    /\ manifest = helloConfig
    /\ rolesFile = oldRolesFile

Next ==
    \/ Do_package
    \/ Do_serverless_config
    \/ Do_get_provider_name
    \/ Do_get_default_profile
    \/ Do_get_default_region
    \/ Do_get_resource_template
    \/ Do_get_function_name
    \/ Do_get_function_package_name
    \/ Do_get_function_root
    \/ Do_result
    \/ Do_exit
    \/ EnvManifest
    \/ EnvArtifact

Spec == Init /\ [][Next]_vars

\* Reconciliation alone, interactive or not, on every manifest of Configs,
\* with or without a roles file.
InitR ==
    /\ New
    /\ yes \in BOOLEAN
    /\ manifestExists \in BOOLEAN
    /\ manifest \in Configs
    /\ rolesFile \in {noRolesFile, oldRolesFile}

NextR ==
    \/ Do_result
    \/ Do_exit
    \/ EnvManifest
    \/ EnvArtifact

SpecR == InitR /\ [][NextR]_vars

\* The function resolver alone, on an instance that has packaged and has
\* cached the resolved state, for every resolved state of TableDocs.
InitF ==
    /\ yes = FALSE
    /\ manifestExists = TRUE
    /\ manifest = helloConfig
    /\ rolesFile = noRolesFile
    /\ has_serverless_package = TRUE
    /\ serverless_package = 1
    /\ has_serverless_config_cache = TRUE
    /\ serverless_config_cache \in TableDocs
    /\ scratchExists = TRUE
    /\ artifact = Artifact("json", serverless_config_cache)
    /\ bundles = noBundles
    /\ popenCalls = 1
    /\ spawned = 1
    /\ packaged = TRUE
    /\ loadFailed = FALSE
    /\ created = 1
    /\ extractions = [p \in PkgNames |-> 0]
    /\ exited = FALSE
    /\ tick = FALSE
    /\ last = [op |-> "_serverless_config", arg |-> NoValue, error |-> "none", code |-> 0,
               ret |-> serverless_config_cache, eprinted |-> <<>>, reads |-> 1,
               waited |-> <<0>>, prompts |-> <<>>, extracted |-> {}]

NextF ==
    \/ Do_get_function_name
    \/ Do_get_function_package_name

SpecF == InitF /\ [][NextF]_vars

\* Reconciliation of a service, interactive or not, on an instance that has
\* packaged and has cached the resolved state, for every manifest of
\* ServiceConfigs and every resolved state of ResourceDocs.
InitL ==
    /\ yes \in BOOLEAN
    /\ manifestExists = TRUE
    /\ manifest \in ServiceConfigs
    /\ rolesFile = noRolesFile
    /\ has_serverless_package = TRUE
    /\ serverless_package = 1
    /\ has_serverless_config_cache = TRUE
    /\ serverless_config_cache \in ResourceDocs
    /\ scratchExists = TRUE
    /\ artifact = Artifact("json", serverless_config_cache)
    /\ bundles = noBundles
    /\ popenCalls = 1
    /\ spawned = 1
    /\ packaged = TRUE
    /\ loadFailed = FALSE
    /\ created = 1
    /\ extractions = [p \in PkgNames |-> 0]
    /\ exited = FALSE
    /\ tick = FALSE
    /\ last = [op |-> "_serverless_config", arg |-> NoValue, error |-> "none", code |-> 0,
               ret |-> serverless_config_cache, eprinted |-> <<>>, reads |-> 1,
               waited |-> <<0>>, prompts |-> <<>>, extracted |-> {}]

NextL ==
    \/ Do_result_service
    \/ Do_exit

SpecL == InitL /\ [][NextL]_vars

\* ===================================================================== claims
\* The methods that read the resolved state.
StateReaders ==
    {"_serverless_config", "get_provider_name", "get_default_profile",
     "get_default_region", "get_function_name", "_get_function_package_name"}

\* C1: whatever the calls made on one instance, Popen is called at most once
\* (so the toolchain is started at most once), and once a toolchain run has
\* exited with 0 no step starts another run, makes another scratch directory
\* or changes the directory recorded on the instance.
C1_PackagedOnce ==
    [][/\ popenCalls' <= 1
       /\ spawned' <= 1
       /\ created' <= 1
       /\ packaged =>
            /\ serverless_package' = serverless_package
            /\ has_serverless_package'
            /\ popenCalls' = popenCalls
            /\ spawned' = spawned
            /\ created' = created]_vars

\* A _package call that came after the successful run (it waited for no
\* process) and returned, the directory being the one made first.
C1_Witness ==
    /\ last.op = "_package"
    /\ last.error = "none"
    /\ last.waited = <<>>
    /\ packaged
    /\ serverless_package = 1
    /\ popenCalls = 1

\* C2: a _package call that looks for the manifest (the instance has no
\* scratch directory yet) and does not find it ends with SystemExit(-1) after
\* one diagnostic that names <path>/serverless.yml; and whenever _package ends
\* so, the instance has called Popen never, no subprocess was started, and no
\* scratch directory was made or recorded.
C2_ConfigNotFound ==
    [][LET call == last'.op = "_package"
           missing == call /\ ~manifestExists /\ ~has_serverless_package
           notFound == call /\ last'.error = "ConfigNotFound"
       IN  /\ missing => notFound
           /\ notFound =>
                /\ ~manifestExists
                /\ last'.code = -1
                /\ last'.eprinted =
                     <<[msg |-> "error: could not find serverless config in: {}",
                        arg |-> <<"path/to/project/serverless.yml">>]>>
                /\ popenCalls' = 0
                /\ spawned' = 0
                /\ created' = 0
                /\ ~scratchExists'
                /\ ~has_serverless_package']_vars

C2_Witness ==
    /\ last.op = "_package"
    /\ last.error = "ConfigNotFound"
    /\ ~manifestExists
    /\ created = 0

\* C3: once the cache is populated it never changes, whatever happens to
\* serverless-state.json; a later _serverless_config returns the cached
\* document, and no method that reads the resolved state opens the artifact,
\* calls Popen or makes a scratch directory again.
C3_CacheStable ==
    [][has_serverless_config_cache =>
         /\ has_serverless_config_cache'
         /\ serverless_config_cache' = serverless_config_cache
         /\ last'.op \in StateReaders =>
              /\ last'.reads = 0
              /\ popenCalls' = popenCalls
              /\ created' = created
         /\ last'.op = "_serverless_config" =>
              /\ last'.error = "none"
              /\ last'.ret = serverless_config_cache]_vars

\* An access that returned the cached document while the artifact on disk
\* holds something else.
C3_Witness ==
    /\ last.op = "_serverless_config"
    /\ last.error = "none"
    /\ last.reads = 0
    /\ has_serverless_config_cache
    /\ last.ret = serverless_config_cache
    /\ artifact # Artifact("json", serverless_config_cache)
    /\ scratchExists

\* C4: a _serverless_config call that opens the artifact (the cache is empty
\* and _package has returned) ends with SystemExit(-1) and the diagnostic of
\* StateArtifactMissing if the file is not there, with SystemExit(-1) and the
\* diagnostic of StateArtifactInvalid carrying the parser's error if it is not
\* JSON, and in both cases leaves the cache empty; if the file is JSON the
\* call returns the parsed document and caches it.  A failure does not stop
\* later accesses from reading: on an instance with a scratch directory and
\* an empty cache every access opens the artifact again.
C4_StateArtifact ==
    [][LET access == last'.op = "_serverless_config"
           opened == access /\ last'.reads = 1
           absent == ~scratchExists' \/ artifact'.kind = "absent"
       IN  /\ (access /\ ~has_serverless_config_cache /\ has_serverless_package) => opened
           /\ (opened /\ absent) =>
                /\ last'.error = "StateArtifactMissing"
                /\ last'.code = -1
                /\ last'.eprinted =
                     <<[msg |-> "error: serverless package did not create serverless-state.json",
                        arg |-> <<>>]>>
                /\ ~has_serverless_config_cache'
           /\ (opened /\ ~absent /\ artifact'.kind = "invalid") =>
                /\ last'.error = "StateArtifactInvalid"
                /\ last'.code = -1
                /\ last'.eprinted =
                     <<[msg |-> "error: invalid serverless-state.json:\n{}",
                        arg |-> <<"Expecting value: line 1 column 1 (char 0)">>]>>
                /\ ~has_serverless_config_cache'
           /\ (opened /\ ~absent /\ artifact'.kind = "json") =>
                /\ last'.error = "none"
                /\ last'.ret = artifact'.doc
                /\ has_serverless_config_cache'
                /\ serverless_config_cache' = artifact'.doc]_vars

\* An access that read and returned the document although an earlier load on
\* the same instance had failed, the toolchain having run in an earlier call.
C4_Witness ==
    /\ last.op = "_serverless_config"
    /\ last.error = "none"
    /\ last.reads = 1
    /\ last.waited = <<>>
    /\ loadFailed
    /\ has_serverless_config_cache
    /\ last.ret = stateCombined

\* C5: every SystemExit carries the code of its class: 1 for a declined
\* overwrite; -1 for ConfigNotFound, ToolchainNotInstalled,
\* StateArtifactMissing, StateArtifactInvalid and FunctionNotFound; for
\* PackagingFailed the non-zero code process.wait() returned; 2 for
\* BundleMissing and BundleCorrupt.  A toolchain run that exits non-zero
\* always ends the call with PackagingFailed.
C5_ExitCodes ==
    /\ last.error = "UserDeclined" => last.code = 1
    /\ last.error \in {"ConfigNotFound", "ToolchainNotInstalled", "StateArtifactMissing",
                       "StateArtifactInvalid", "FunctionNotFound"} => last.code = -1
    /\ last.error = "PackagingFailed" =>
         /\ last.waited # <<>>
         /\ last.code = last.waited[Len(last.waited)]
         /\ last.code # 0
    /\ (last.waited # <<>> /\ last.waited[Len(last.waited)] # 0) => last.error = "PackagingFailed"
    /\ last.error \in {"BundleMissing", "BundleCorrupt"} => last.code = 2

\* A packaging that failed with the toolchain's exit code 2, inside a call of
\* get_function_root.
C5_Witness ==
    /\ last.op = "get_function_root"
    /\ last.error = "PackagingFailed"
    /\ last.waited = <<2>>
    /\ last.code = 2

\* The classes of fatal conditions.
Fatal ==
    {"ConfigNotFound", "ToolchainNotInstalled", "PackagingFailed", "StateArtifactMissing",
     "StateArtifactInvalid", "FunctionNotFound", "BundleMissing", "BundleCorrupt",
     "UserDeclined"}

\* C6: a call that ends with a fatal condition has printed exactly one
\* diagnostic, and the exit code is not 0.
C6_OneDiagnostic ==
    last.error \in Fatal => (Len(last.eprinted) = 1 /\ last.code # 0)

\* C7: once __exit__ has run on an instance that made a scratch directory,
\* the directory is gone, however the calls before ended.
C7_ScratchDeleted ==
    (exited /\ created > 0) => ~scratchExists

\* __exit__ after a packaging that could not start the toolchain.
C7_Witness ==
    /\ last.op = "__exit__"
    /\ exited
    /\ created = 1
    /\ popenCalls = 1
    /\ spawned = 0
    /\ ~scratchExists

\* C8: with the resolved state at hand, get_function_name(n) returns the key
\* of an entry of the function table whose name is n if there is one, and
\* otherwise ends with SystemExit(-1) after one diagnostic that names n.
C8_FunctionName ==
    (last.op = "get_function_name" /\ has_serverless_config_cache) =>
        LET functions == serverless_config_cache.functions
            matches == {i \in DOMAIN functions : functions[i].name = last.arg}
        IN  IF matches # {}
            THEN /\ last.error = "none"
                 /\ \E i \in matches : functions[i].key = last.ret
            ELSE /\ last.error = "FunctionNotFound"
                 /\ last.code = -1
                 /\ last.eprinted =
                      <<[msg |-> "error: could not find Serverless name for function: '{}'",
                         arg |-> last.arg]>>

\* A name found at the second entry of a table whose first entry has another
\* name.
C8_Witness ==
    /\ last.op = "get_function_name"
    /\ last.error = "none"
    /\ Len(serverless_config_cache.functions) = 2
    /\ serverless_config_cache.functions[1].name # last.arg
    /\ serverless_config_cache.functions[2].name = last.arg
    /\ last.ret = serverless_config_cache.functions[2].key

\* C9: with the resolved state at hand, _get_function_package_name(name)
\* returns service.service, whatever the name, if package.individually is
\* false or absent, and returns the name itself if it is true.
C9_PackageName ==
    (last.op = "_get_function_package_name" /\ has_serverless_config_cache) =>
        /\ last.error = "none"
        /\ serverless_config_cache.individually \in {"absent", "false"} =>
             last.ret = serverless_config_cache.service
        /\ serverless_config_cache.individually = "true" => last.ret = last.arg

\* The service's name returned for bye, package.individually being absent.
C9_Witness ==
    /\ last.op = "_get_function_package_name"
    /\ last.arg = bye
    /\ serverless_config_cache.individually = "absent"
    /\ last.ret = <<"s", "v", "c">>

\* What C10 expects of the manifest m: the role of hello is a resource that
\* refers to the roles file, and custom.puresec_roles points at the file.
puresecHelloRole == <<"puresec", "H", "e", "l", "l", "o", "Role">>
HelloRoleDeclared(m) ==
    /\ m.resources.has
    /\ m.resources.hasResources
    /\ puresecHelloRole \in DOMAIN m.resources.Resources
    /\ m.resources.Resources[puresecHelloRole] =
         <<"${self:custom.puresec_roles.PureSec", "H", "e", "l", "l", "o", "Role}">>
    /\ m.custom.has
    /\ m.custom.puresec_roles = <<"${file(puresec-roles.yml)}">>
HelloRewired(m) ==
    /\ m.functions.has
    /\ hello \in DOMAIN m.functions.tab
    /\ m.functions.tab[hello].role = puresecHelloRole

\* The call l carried out the rewiring: self.yes, or a yes to the question.
RewiringAccepted(l) ==
    \/ yes
    \/ \E i \in DOMAIN l.prompts :
          l.prompts[i] = [question |-> "Reference functions to new roles?", answer |-> TRUE]

\* result() is called with the one function hello on the manifest m.
ReconcileHello(m) ==
    /\ last'.op = "result"
    /\ last'.arg = Provider({hello})
    /\ manifestExists
    /\ manifest = m

\* C10 as stated: reconciling {hello} against the empty manifest, unless a
\* fatal condition ends the run, writes a manifest that declares
\* puresecHelloRole and custom.puresec_roles and, if rewiring was accepted,
\* has functions.hello.role = puresecHelloRole.
C10_EmptyManifest ==
    [][(ReconcileHello(emptyConfig) /\ last'.error \notin Fatal) =>
         /\ last'.error = "none"
         /\ HelloRoleDeclared(manifest')
         /\ RewiringAccepted(last') => HelloRewired(manifest')]_vars

\* C10 as amended: against the empty manifest a run that completes has
\* declined the rewiring and writes a manifest that declares puresecHelloRole
\* and custom.puresec_roles, while a run that accepts the rewiring ends with
\* an uncaught KeyError and leaves the manifest as it was; against the
\* manifest that declares the function hello and nothing else, a run that
\* completes writes a manifest that declares both and has functions.hello.role
\* = puresecHelloRole if the rewiring was accepted, the role unchanged if not.
C10_Reconciled ==
    [][/\ (ReconcileHello(emptyConfig) /\ last'.error = "none") =>
            /\ ~RewiringAccepted(last')
            /\ HelloRoleDeclared(manifest')
            /\ ~manifest'.functions.has
       /\ (ReconcileHello(emptyConfig) /\ RewiringAccepted(last')) =>
            /\ last'.error = "KeyError"
            /\ manifest' = manifest
       /\ (ReconcileHello(helloConfig) /\ last'.error \notin Fatal) =>
            /\ last'.error = "none"
            /\ HelloRoleDeclared(manifest')
            /\ IF RewiringAccepted(last')
               THEN HelloRewired(manifest')
               ELSE manifest'.functions = helloConfig.functions]_vars

\* A reconciliation that completed and rewired hello to its new role, in a
\* manifest whose only resource is that role.
C10_Witness ==
    /\ last.op = "result"
    /\ last.arg = Provider({hello})
    /\ last.error = "none"
    /\ RewiringAccepted(last)
    /\ HelloRoleDeclared(manifest)
    /\ HelloRewired(manifest)
    /\ DOMAIN manifest.resources.Resources = {puresecHelloRole}
    /\ DOMAIN manifest.functions.tab = {hello}

\* The role of a function, written out.
puresecByeRole == <<"puresec", "B", "y", "e", "Role">>
puresecOtherRole == <<"puresec", "O", "t", "h", "e", "r", "Role">>
ExpectedRole(name) ==
    CASE name = hello -> puresecHelloRole
      [] name = bye -> puresecByeRole
      [] name = other -> puresecOtherRole
ExpectedRoles(provider) == {ExpectedRole(name) : name \in DOMAIN provider.permissions}

\* The call l asked `question` and got `answer`.
Answered(l, question, answer) ==
    \E i \in DOMAIN l.prompts : l.prompts[i] = [question |-> question, answer |-> answer]
Asked(l, question) == \E answer \in BOOLEAN : Answered(l, question, answer)
SureQuestion == "These are the roles that would be removed:\n{}\nAre you sure?"

\* The call l carried out the removal of the old roles: self.yes, or a yes to
\* "Are you sure?".
RemovalConfirmed(l) == yes \/ Answered(l, SureQuestion, TRUE)

\* The step is a result() call with a mapping that is not empty, and it has
\* written the manifest.
Reconciled ==
    /\ last'.op = "result"
    /\ DOMAIN last'.arg.permissions # {}
    /\ last'.error = "none"

\* The legacy roles of a reconciliation: the resources of the resolved state's
\* resource block `old` that are roles assumed by lambda, are no new role of
\* `provider` and are in the resource block of the manifest m.
LegacyRoles(old, provider, m) ==
    {id \in DOMAIN old :
        /\ old[id] = [Type |-> "AWS::IAM::Role", lambda |-> TRUE]
        /\ id \notin ExpectedRoles(provider)
        /\ id \in DOMAIN m.resources.Resources}

\* C11: a reconciliation that carries out the removal writes a manifest whose
\* resource block holds the resources it held before and the new roles, but
\* for the legacy roles: these are deleted, nothing else is, the resources
\* kept keep their definitions, and every new role is there.
C11_LegacyRemoved ==
    [][(Reconciled /\ RemovalConfirmed(last')) =>
         LET before == manifest.resources.Resources
             after == manifest'.resources.Resources
             legacy == LegacyRoles(serverless_config_cache'.resources, last'.arg, manifest)
         IN  /\ manifest'.resources.has
             /\ DOMAIN after = ((DOMAIN before) \cup ExpectedRoles(last'.arg)) \ legacy
             /\ ExpectedRoles(last'.arg) \subseteq DOMAIN after
             /\ \A id \in (DOMAIN after) \ ExpectedRoles(last'.arg) : after[id] = before[id]]_vars

\* The user confirmed the removal; OldRole, a role of the resolved state that
\* lambda assumes, is gone from a manifest that keeps Bucket and the new role
\* of hello, which the resolved state holds as a role assumed by lambda too.
C11_Witness ==
    /\ last.op = "result"
    /\ last.error = "none"
    /\ Answered(last, SureQuestion, TRUE)
    /\ OldRole \in DOMAIN serverless_config_cache.resources
    /\ serverless_config_cache.resources[OldRole] = LambdaRole
    /\ puresecHelloRole \in DOMAIN serverless_config_cache.resources
    /\ DOMAIN manifest.resources.Resources = {Bucket, puresecHelloRole}

OverwriteQuestion == "Roles file already exists, overwrite?"

\* C13: a result() call with a mapping that is not empty asks whether to
\* overwrite, before anything else, exactly when the instance is interactive
\* and puresec-roles.yml exists; on the answer no it ends with SystemExit(1)
\* and the roles file and the manifest are as they were; with self.yes it
\* asks nothing and the roles file holds the roles of the mapping.
C13_Overwrite ==
    [][(last'.op = "result" /\ DOMAIN last'.arg.permissions # {}) =>
         /\ (~yes /\ rolesFile.exists) <=> Asked(last', OverwriteQuestion)
         /\ Asked(last', OverwriteQuestion) => last'.prompts[1].question = OverwriteQuestion
         /\ Answered(last', OverwriteQuestion, FALSE) =>
              /\ last'.error = "UserDeclined"
              /\ last'.code = 1
              /\ Len(last'.prompts) = 1
              /\ rolesFile' = rolesFile
              /\ manifest' = manifest
              /\ manifestExists' = manifestExists
         /\ yes =>
              /\ last'.prompts = <<>>
              /\ rolesFile' = [exists |-> TRUE, roles |-> last'.arg.roles]]_vars

\* The user said no: the run ended with exit status 1, the roles file still
\* holds the roles of the earlier run and the manifest those of the service.
C13_Witness ==
    /\ last.op = "result"
    /\ last.arg = Provider({hello})
    /\ ~yes
    /\ last.prompts = <<[question |-> OverwriteQuestion, answer |-> FALSE]>>
    /\ last.error = "UserDeclined"
    /\ last.code = 1
    /\ rolesFile = oldRolesFile
    /\ manifest = serviceConfig

\* C14: with self.yes a result() call with a mapping that is not empty asks
\* nothing and overwrites the roles file; if it completes, every function of
\* the mapping is rewired to its new role, provider.iamRoleStatements and
\* every legacy role are gone, and the manifest written is the same whatever
\* the user would have answered: it depends on the mapping, the manifest and
\* the resolved state alone.
C14_AssumeYes ==
    [][(last'.op = "result" /\ DOMAIN last'.arg.permissions # {} /\ yes) =>
         /\ last'.prompts = <<>>
         /\ rolesFile' = [exists |-> TRUE, roles |-> last'.arg.roles]
         /\ last'.error = "none" =>
              /\ \A name \in DOMAIN last'.arg.permissions :
                    manifest'.functions.tab[name].role = ExpectedRole(name)
              /\ ~manifest'.iamRoleStatements
              /\ LegacyRoles(serverless_config_cache'.resources, last'.arg, manifest)
                    \cap DOMAIN manifest'.resources.Resources = {}
              /\ \A a \in Answers, t \in ToolRunsFor(World) :
                    LET r == result(World, t, TRUE, last'.arg, a)
                    IN  r.error = "none" /\ r.w.manifest = manifest' /\ r.w.prompts = <<>>]_vars

\* An unattended run for hello and bye that asked nothing, rewired both,
\* removed OldRole and kept Bucket.
C14_Witness ==
    /\ yes
    /\ last.op = "result"
    /\ last.arg = Provider({hello, bye})
    /\ last.error = "none"
    /\ last.prompts = <<>>
    /\ rolesFile.roles = Provider({hello, bye}).roles
    /\ manifest.functions.tab[hello].role = puresecHelloRole
    /\ manifest.functions.tab[bye].role = puresecByeRole
    /\ serverless_config_cache.resources = (OldRole :> LambdaRole) @@ (Bucket :> S3Bucket)
    /\ DOMAIN manifest.resources.Resources = {Bucket, puresecHelloRole, puresecByeRole}
    /\ ~manifest.iamRoleStatements

ReferenceQuestion == "Reference functions to new roles?"
RemoveQuestion == "Remove old roles?"

\* The reference a new role's resource holds, written out.
ExpectedRef(name) ==
    CASE name = hello -> <<"${self:custom.puresec_roles.PureSec", "H", "e", "l", "l", "o", "Role}">>
      [] name = bye -> <<"${self:custom.puresec_roles.PureSec", "B", "y", "e", "Role}">>
      [] name = other -> <<"${self:custom.puresec_roles.PureSec", "O", "t", "h", "e", "r", "Role}">>

\* C15: a result() call in which the user says no to the rewiring is not
\* stopped by that answer, also when the manifest does not declare a function
\* of the mapping: it goes on to the legacy step, and the only failures left
\* are those of packaging and of loading the resolved state there, which need
\* a yes to "Remove old roles?".  When it completes, the manifest declares
\* every new role and the functions section is as it was.  A call that
\* rewires and completes leaves every function of the mapping with its new
\* role and every other function as it was.
C15_Rewiring ==
    [][(last'.op = "result" /\ DOMAIN last'.arg.permissions # {}) =>
         /\ Answered(last', ReferenceQuestion, FALSE) =>
              /\ Asked(last', RemoveQuestion)
              /\ \/ last'.error = "none"
                 \/ /\ Answered(last', RemoveQuestion, TRUE)
                    /\ last'.error \in {"ConfigNotFound", "ToolchainNotInstalled", "PackagingFailed",
                                        "StateArtifactMissing", "StateArtifactInvalid"}
              /\ last'.error = "none" =>
                   /\ \A name \in DOMAIN last'.arg.permissions :
                         /\ ExpectedRole(name) \in DOMAIN manifest'.resources.Resources
                         /\ manifest'.resources.Resources[ExpectedRole(name)] = ExpectedRef(name)
                   /\ manifest'.functions = manifest.functions
         /\ (RewiringAccepted(last') /\ last'.error = "none") =>
              /\ DOMAIN manifest'.functions.tab = DOMAIN manifest.functions.tab
              /\ \A name \in DOMAIN manifest'.functions.tab :
                    manifest'.functions.tab[name].role =
                        IF name \in DOMAIN last'.arg.permissions
                        THEN ExpectedRole(name)
                        ELSE manifest.functions.tab[name].role]_vars

\* The user said no to the rewiring of hello and of a function the manifest
\* does not declare: the run completed, both new roles are declared, and
\* hello keeps the role it had.
C15_Witness ==
    /\ last.op = "result"
    /\ last.arg = Provider({hello, other})
    /\ Answered(last, ReferenceQuestion, FALSE)
    /\ last.error = "none"
    /\ {puresecHelloRole, puresecOtherRole} \subseteq DOMAIN manifest.resources.Resources
    /\ manifest.functions.tab[hello].role = OldRole
    /\ other \notin DOMAIN manifest.functions.tab

\* C16: a reconciliation that writes the manifest has removed
\* provider.iamRoleStatements and every legacy role, or has removed none of
\* them: all of them exactly when there is something to remove and the
\* removal was carried out (self.yes, or a yes to the one "Are you sure?").
\* That question is asked at most once, and only when there is something to
\* remove; when there is nothing, it is not asked and the manifest keeps
\* every resource it had.
C16_AllOrNothing ==
    [][Reconciled =>
         LET legacy == LegacyRoles(serverless_config_cache'.resources, last'.arg, manifest)
             candidates == manifest.iamRoleStatements \/ legacy # {}
             after == DOMAIN manifest'.resources.Resources
             all == ~manifest'.iamRoleStatements /\ legacy \cap after = {}
             nothing == manifest'.iamRoleStatements = manifest.iamRoleStatements /\ legacy \subseteq after
             sure == {i \in DOMAIN last'.prompts : last'.prompts[i].question = SureQuestion}
         IN  /\ all \/ nothing
             /\ candidates => (all <=> RemovalConfirmed(last'))
             /\ candidates => (nothing <=> ~RemovalConfirmed(last'))
             /\ Cardinality(sure) <= 1
             /\ sure # {} <=> (candidates /\ ~yes /\ Answered(last', RemoveQuestion, TRUE))
             /\ ~candidates =>
                  /\ sure = {}
                  /\ nothing
                  /\ after = (DOMAIN manifest.resources.Resources) \cup ExpectedRoles(last'.arg)]_vars

\* The user said no to "Are you sure?": the manifest written keeps both
\* provider.iamRoleStatements and OldRole, a role that lambda assumes.
C16_Witness ==
    /\ last.op = "result"
    /\ last.error = "none"
    /\ Answered(last, SureQuestion, FALSE)
    /\ manifest.iamRoleStatements
    /\ OldRole \in DOMAIN serverless_config_cache.resources
    /\ serverless_config_cache.resources[OldRole] = LambdaRole
    /\ OldRole \in DOMAIN manifest.resources.Resources

\* C17: no archive is extracted twice on one instance.  A get_function_root
\* call that gets as far as the package name p (the function's name if
\* package.individually is true, the service's name otherwise) either
\* returns <scratch>/p, where a directory then exists, the scratch directory
\* being the one recorded before if one was; or ends with SystemExit(2),
\* there being no directory p and no valid archive p.zip, and makes no
\* directory.  A call that finds the directory extracts nothing and leaves
\* the bundles as they are; a call extracts only p, and only from a valid
\* archive.
C17_ExtractedOnce ==
    [][/\ \A p \in PkgNames : extractions'[p] <= 1
       /\ (last'.op = "get_function_root" /\ has_serverless_config_cache') =>
            LET p == IF serverless_config_cache'.individually = "true"
                     THEN last'.arg
                     ELSE <<"s", "v", "c">>
                found == has_serverless_package /\ scratchExists /\ bundles[p].dir
            IN  /\ last'.error \in {"none", "BundleMissing", "BundleCorrupt"}
                /\ last'.error = "none" =>
                     /\ last'.ret = [dir |-> serverless_package', file |-> p]
                     /\ has_serverless_package => serverless_package' = serverless_package
                     /\ scratchExists'
                     /\ bundles'[p].dir
                     /\ last'.extracted \subseteq {p}
                     /\ last'.extracted = {p} => bundles'[p].zip = "valid"
                     /\ last'.extracted = {} => found
                /\ last'.error # "none" =>
                     /\ last'.code = 2
                     /\ ~bundles'[p].dir
                     /\ bundles'[p].zip # "valid"
                     /\ last'.extracted = {}
                     /\ \A q \in PkgNames : bundles'[q].dir = (scratchExists /\ bundles[q].dir)
                /\ found =>
                     /\ last'.error = "none"
                     /\ last'.extracted = {}
                     /\ bundles' = bundles]_vars

\* A call for bye that returned <scratch>/svc without extracting: an earlier
\* call had extracted svc.zip, once.
C17_Witness ==
    /\ last.op = "get_function_root"
    /\ last.arg = bye
    /\ last.error = "none"
    /\ last.ret = [dir |-> 1, file |-> <<"s", "v", "c">>]
    /\ last.extracted = {}
    /\ extractions[<<"s", "v", "c">>] = 1
    /\ bundles[<<"s", "v", "c">>].dir

\* C18: a _package call returns normally only on an instance whose toolchain
\* run has exited with 0.
C18_ReturnsAfterSuccess ==
    (last.op = "_package" /\ last.error = "none") => (packaged /\ spawned >= 1)

\* C19 as stated: a result() call that ends abnormally has changed neither
\* the manifest nor the roles file.
C19_Atomic ==
    [][(last'.op = "result" /\ last'.error # "none") =>
         /\ manifest' = manifest
         /\ manifestExists' = manifestExists
         /\ rolesFile' = rolesFile]_vars

\* C19 as amended: a result() call that ends abnormally has not changed the
\* manifest; it has left the roles file as it was if it ended on a no to the
\* overwrite question, and otherwise (the manifest is missing, the mapping
\* names a function the manifest lacks, packaging or the loading of the
\* resolved state failed in the legacy step) the roles file already holds
\* the roles of the mapping.
C19_ManifestAtomic ==
    [][(last'.op = "result" /\ last'.error # "none") =>
         /\ manifest' = manifest
         /\ manifestExists' = manifestExists
         /\ IF last'.error = "UserDeclined"
            THEN rolesFile' = rolesFile
            ELSE rolesFile' = [exists |-> TRUE, roles |-> last'.arg.roles]]_vars

\* A run for hello on the empty manifest that accepted the rewiring: it ended
\* with KeyError, the manifest is still empty, and puresec-roles.yml holds
\* the role of hello.
C19_Witness ==
    /\ last.op = "result"
    /\ last.arg = Provider({hello})
    /\ last.error = "KeyError"
    /\ manifest = emptyConfig
    /\ rolesFile = [exists |-> TRUE, roles |-> Provider({hello}).roles]

\* C20: a reconciliation that writes the manifest leaves in it a resources
\* section with a Resources block that holds the role of every function of
\* the mapping, whatever was asked and answered; the block is not empty.
C20_NewRolesDeclared ==
    [][Reconciled =>
         /\ manifest'.resources.has
         /\ manifest'.resources.hasResources
         /\ manifest'.resources.Resources # <<>>
         /\ ExpectedRoles(last'.arg) # {}
         /\ ExpectedRoles(last'.arg) \subseteq DOMAIN manifest'.resources.Resources]_vars

\* The removal was carried out on a manifest with provider.iamRoleStatements
\* and no resources, while the resolved state holds the new role of hello as a
\* role that lambda assumes: the role is the one resource of the manifest.
C20_Witness ==
    /\ last.op = "result"
    /\ last.arg = Provider({hello})
    /\ last.error = "none"
    /\ Answered(last, ReferenceQuestion, FALSE)
    /\ Answered(last, SureQuestion, TRUE)
    /\ puresecHelloRole \in DOMAIN serverless_config_cache.resources
    /\ manifest.resources.has
    /\ DOMAIN manifest.resources.Resources = {puresecHelloRole}

====
